---- MODULE Spec2Model ----
(***************************************************************************)
(* Model of the documentation artifacts of this repository:                *)
(*   - the notebook comparision.ipynb (kernel ridge regression vs. SVR),   *)
(*     run cell by cell, statement group by statement group;               *)
(*   - the rendered page 2015-06-30-2d-histograms.html: its front-matter   *)
(*     block and its three plotting examples.                              *)
(* Random draws are identified by their position in the generator's        *)
(* stream, wall-clock readings by a tick counter, and the results of the   *)
(* external libraries (support vectors, dict iteration order, outcome of   *)
(* the install step) are chosen nondeterministically.                      *)
(***************************************************************************)
EXTENDS Integers, Sequences, FiniteSets, TLC

VARIABLES
    pc,          \* position of the notebook run (next statement group)
    division,    \* TRUE once "from __future__ import division" has run
    rng,         \* np.random.RandomState: [def, seed, drawn]
    X,           \* [def, start, rows]: rows draws of rng from offset start
    y,           \* [src, rows, adds]: sin of the X drawn at src, plus additions
    X_plot,      \* number of rows of X_plot (0 = unbound)
    train_size,  \* 0 = unbound
    svr, kr,     \* estimator objects bound to the names svr and kr
    sv_ratio,    \* support vector ratio in thousandths (-1 = unbound)
    y_svr, y_kr, \* predictions: [n, by, data] (n = 0: unbound)
    t0,          \* last clock reading stored in t0 (-1 = unbound)
    fitTimes,    \* svr_fit, kr_fit, svr_predict, kr_predict measurements
    fig,         \* plotly figure: [def, grid, data, layout]
    traces,      \* trace1..trace8 as last assigned: name -> trace
    sizes,       \* np.logspace(1, 4, 7) in tenths
    order,       \* iteration order of the estimator dict (<<>> = not yet)
    ests,        \* the two estimator objects of the timing dict
    ei, si,      \* loop indices: estimator (outer), size (inner)
    train_time, test_time, plot2,
    li,          \* index of the running append loop
    clock,       \* ticks of time.time()
    calls,       \* history of calls into external libraries and services
    writers,     \* for each notebook name: the cells that wrote or mutated it
    publisherOk, \* publisher module available: "unknown", "yes", "no"
    installs,    \* outcomes of the attempts of the install step
    fmLine,      \* page: number of front-matter lines read so far
    fmKeys,      \* page: front-matter key -> value parsed so far
    kernel,      \* page: name bound in the interpreter -> example that bound it
    exRun,       \* page: example being run (0 = none)
    exPos,       \* page: statements of exRun executed so far
    exDone       \* page: examples that ran to their end, in order

nbVars == <<pc, division, rng, X, y, X_plot, train_size, svr, kr, sv_ratio,
            y_svr, y_kr, t0, fitTimes, fig, traces, sizes, order, ests, ei,
            si, train_time, test_time, plot2, li, clock, calls, writers,
            publisherOk, installs>>
pageVars == <<fmLine, fmKeys, kernel, exRun, exPos, exDone>>
vars == <<nbVars, pageVars>>

----------------------------------------------------------------------------
(* Bounds of the model                                                      *)

\* the support-vector counts tried are k * train_size / SVChoices
SVChoices == 4
\* the number of example runs a reader of the page starts
MaxRuns == 3

----------------------------------------------------------------------------
(* Literals of the notebook                                                 *)

NRows == 10000
NoiseStride == 5
NPlot == 100000
TrainSize == 100
CVFolds == 5
NSizes == 7
NPredict == 1000
LCFolds == 10
LCPoints == 10

Min(a, b) == IF a < b THEN a ELSE b

\* np.linspace(start, stop, num), every entry multiplied by scale
Linspace(start, stop, num, scale) ==
    [k \in 1..num |->
        (start * scale * (num - 1) + (k - 1) * (stop - start) * scale)
            \div (num - 1)]

\* 10 ** (e2 / 2) in tenths, truncated, for the half-integer exponents used
Pow10Tenths(e2) ==
    CASE e2 = 2 -> 100
      [] e2 = 3 -> 316
      [] e2 = 4 -> 1000
      [] e2 = 5 -> 3162
      [] e2 = 6 -> 10000
      [] e2 = 7 -> 31622
      [] e2 = 8 -> 100000

\* np.logspace(start, stop, num) in tenths
LogspaceTenths(start, stop, num) ==
    [k \in 1..num |-> Pow10Tenths(Linspace(start, stop, num, 2)[k])]

\* np.logspace(start, stop, num) as exponents of ten
LogspaceExp(start, stop, num) == Linspace(start, stop, num, 1)

\* int(v) of a float held in tenths: numpy's deprecated non-integer index
TruncTenths(t) == t \div 10

\* a / b as the notebook evaluates it, in thousandths
DivideMut(a, b, future) == (a \div b) * 1000
Divide(a, b, future) ==
    IF future THEN (a * 1000) \div b ELSE (a \div b) * 1000

\* rng.rand(X.shape[0]/5): the quotient used as a length
NoiseCount(rows) == rows \div NoiseStride

\* the indices selected by a[::step] on an array of n entries
StrideIdx(n, step) == {i \in 0..(n - 1) : i % step = 0}

\* y[::step] += noise on an array of n entries, noise being the count draws
\* of rng from offset first: numpy pairs the selected entries with the noise
\* values in order, repeats a single value for all of them, and raises
\* ValueError otherwise.  The addition is recorded as the slice lo:hi:step
\* it went to and the draws it added.
AddStridedMut(n, step, first, count) ==
    [ok  |-> TRUE,
     add |-> [lo |-> 0, hi |-> count, step |-> 1, first |-> first,
              paired |-> TRUE]]
AddStrided(n, step, first, count) ==
    LET sel == StrideIdx(n, step)
        add == [lo |-> 0, hi |-> n, step |-> step, first |-> first,
                paired |-> count = Cardinality(sel)]
    IN  [ok  |-> count = Cardinality(sel) \/ count = 1,
         add |-> add]

\* the draws that the additions adds[1..j] added to entry i of the array
RECURSIVE NoiseOf(_, _, _)
NoiseOf(adds, j, i) ==
    IF j = 0 THEN <<>>
    ELSE LET a == adds[j] IN
         NoiseOf(adds, j - 1, i) \o
           (IF i >= a.lo /\ i < a.hi /\ (i - a.lo) % a.step = 0
            THEN <<IF a.paired THEN a.first + ((i - a.lo) \div a.step)
                   ELSE a.first>>
            ELSE <<>>)

\* the draws added to sin(X[i]) in y[i]
YNoise(yy, i) == NoiseOf(yy.adds, Len(yy.adds), i)

\* X = 5 * rng.rand(10000, 1); y = np.sin(X).ravel(); y[::5] += 3 * (0.5 - ...)
SampleData(r) ==
    LET x     == [def |-> TRUE, start |-> r.drawn, rows |-> NRows]
        first == r.drawn + NRows
        count == NoiseCount(x.rows)
        added == AddStrided(x.rows, NoiseStride, first, count)
    IN  [ok  |-> added.ok,
         rng |-> [r EXCEPT !.drawn = first + count],
         X   |-> x,
         y   |-> [src |-> x.start, rows |-> x.rows,
                  adds |-> IF added.ok THEN <<added.add>> ELSE <<>>]]

\* a[:k] on an array of rows entries
SliceRows(rows, k) == Min(rows, k)

----------------------------------------------------------------------------
(* Bookkeeping                                                              *)

Names == {"rng", "X", "y", "X_plot", "train_size", "svr", "kr", "t0",
          "svr_fit", "kr_fit", "sv_ratio", "y_svr", "y_kr", "svr_predict",
          "kr_predict", "to_plotly", "fig", "sv_ind", "trace1", "trace2",
          "trace3", "trace4", "i", "sizes", "plot2", "name", "estimator",
          "train_time", "test_time", "train_test_size", "trace5", "trace6",
          "train_sizes", "train_scores_svr", "test_scores_svr",
          "train_sizes_abs", "train_scores_kr", "test_scores_kr", "trace7",
          "trace8", "publisher"}

\* the names in ns are written (assigned or mutated in place) by cell
Wrote(w, ns, cell) ==
    [n \in Names |-> IF n \in ns THEN w[n] \cup {cell} ELSE w[n]]

Call(op, who, n, data) == [op |-> op, who |-> who, n |-> n, data |-> data,
                           at |-> clock]

NoEstimator == [cls |-> "none", fitted |-> FALSE, p1 |-> <<>>,
                gamma |-> <<>>, cv |-> 0, data |-> -1, rows |-> 0,
                support |-> {}]
NoPrediction == [n |-> 0, by |-> "none", data |-> -1]
NoFigure == [def |-> FALSE, grid |-> <<>>, data |-> <<>>, layout |-> {}]

\* estimator.fit(X[:k], y[:k]); for SVR the support vectors are sv
Fitted(e, x, k, sv) ==
    [e EXCEPT !.fitted = TRUE, !.data = x.start,
              !.rows = SliceRows(x.rows, k), !.support = sv]

\* the support vector sets svr.fit may return on k training rows
SupportSets(k) ==
    {0..(((c * k) \div SVChoices) - 1) : c \in 0..SVChoices}
    \cup {(k - ((c * k) \div SVChoices))..(k - 1) : c \in 1..(SVChoices - 1)}

NoMeasure == [dur |-> -1, from |-> -1]
\* time.time() - t0, read when the clock shows now
Measure(from, now) == [dur |-> now - from, from |-> from]

NoColumn == [kind |-> "none", len |-> 0, src |-> "none", data |-> -1,
             items |-> <<>>]
NoTrace == [def |-> FALSE, name |-> <<>>, x |-> NoColumn, y |-> NoColumn,
            axis |-> 0, cell |-> <<0, 0>>]
TraceNames == {"trace1", "trace2", "trace3", "trace4", "trace5", "trace6",
               "trace7", "trace8"}
\* an array (kind "ndarray") or list of len entries: src says what it holds,
\* data which dataset it was computed from, items its entries where modelled
Column(kind, len, src, data, items) ==
    [kind |-> kind, len |-> len, src |-> src, data |-> data, items |-> items]
\* go.Scatter(x=xs, y=ys, name=name, ...)
Scatter(name, xs, ys) ==
    [def |-> TRUE, name |-> name, x |-> xs, y |-> ys, axis |-> 0,
     cell |-> <<0, 0>>]

----------------------------------------------------------------------------
(* The notebook comparision.ipynb                                           *)

NotebookInit ==
    /\ pc = "imports"
    /\ division = FALSE
    /\ rng = [def |-> FALSE, seed |-> 0, drawn |-> 0]
    /\ X = [def |-> FALSE, start |-> -1, rows |-> 0]
    /\ y = [src |-> -1, rows |-> 0, adds |-> <<>>]
    /\ X_plot = 0
    /\ train_size = 0
    /\ svr = NoEstimator
    /\ kr = NoEstimator
    /\ sv_ratio = -1
    /\ y_svr = NoPrediction
    /\ y_kr = NoPrediction
    /\ t0 = -1
    /\ fitTimes = [n \in {"svr_fit", "kr_fit", "svr_predict", "kr_predict"}
                     |-> NoMeasure]
    /\ fig = NoFigure
    /\ traces = [n \in TraceNames |-> NoTrace]
    /\ sizes = <<>>
    /\ order = <<>>
    /\ ests = [n \in {"KRR", "SVR"} |-> NoEstimator]
    /\ ei = 0
    /\ si = 0
    /\ train_time = <<>>
    /\ test_time = <<>>
    /\ plot2 = <<>>
    /\ li = 0
    /\ clock = 0
    /\ calls = <<>>
    /\ writers = [n \in Names |-> {}]
    /\ publisherOk = "unknown"
    /\ installs = <<>>

\* cell In[2]: the imports, among them "from __future__ import division"
Imports ==
    /\ pc = "imports"
    /\ division' = TRUE
    /\ pc' = "gen"
    /\ UNCHANGED <<rng, X, y, X_plot, train_size, svr, kr, sv_ratio, y_svr,
                   y_kr, t0, fitTimes, fig, traces, sizes, order, ests, ei,
                   si, train_time, test_time, plot2, li, clock, calls,
                   writers, publisherOk, installs>>
    /\ UNCHANGED pageVars

\* cell In[3]: Generate sample data
GenerateSampleData ==
    /\ pc = "gen"
    /\ LET d == SampleData([def |-> TRUE, seed |-> 0, drawn |-> 0]) IN
        /\ rng' = d.rng
        /\ X' = d.X
        /\ y' = d.y
        /\ X_plot' = IF d.ok THEN NPlot ELSE X_plot
        /\ pc' = IF d.ok THEN "grid" ELSE "raised"
        /\ writers' = Wrote(writers,
                            IF d.ok THEN {"rng", "X", "y", "X_plot"}
                            ELSE {"rng", "X", "y"}, "gen")
    /\ UNCHANGED <<division, train_size, svr, kr, sv_ratio, y_svr, y_kr, t0,
                   fitTimes, fig, traces, sizes, order, ests, ei, si,
                   train_time, test_time, plot2, li, clock, calls,
                   publisherOk, installs>>
    /\ UNCHANGED pageVars

\* GridSearchCV(base(kernel='rbf', gamma=0.1), cv=5, param_grid={p1, gamma})
GridSearchCV(base, p1, gamma, cv) ==
    [cls |-> base, fitted |-> FALSE, p1 |-> p1, gamma |-> gamma, cv |-> cv,
     data |-> -1, rows |-> 0, support |-> {}]

\* SVR(...) / KernelRidge(...): a plain, unfitted estimator
Estimator(base) == GridSearchCV(base, <<>>, <<>>, 0)

\* the number of candidates GridSearchCV evaluates
GridSize(e) == Len(e.p1) * Len(e.gamma)

\* cell In[4], lines 1-8: train_size and the two grid searches
SvrGridMut == GridSearchCV("GridSearchCV(SVR)", <<0, 1, 2>>,
                           LogspaceExp(-2, 2, 5), CVFolds)
SvrGrid == GridSearchCV("GridSearchCV(SVR)", <<0, 1, 2, 3>>,
                        LogspaceExp(-2, 2, 5), CVFolds)
KrGrid == GridSearchCV("GridSearchCV(KernelRidge)", <<0, -1, -2, -3>>,
                       LogspaceExp(-2, 2, 5), CVFolds)

BuildGridSearch ==
    /\ pc = "grid"
    /\ train_size' = TrainSize
    /\ svr' = SvrGrid
    /\ kr' = KrGrid
    /\ writers' = Wrote(writers, {"train_size", "svr", "kr"}, "fit")
    /\ pc' = "svr_fit"
    /\ UNCHANGED <<division, rng, X, y, X_plot, sv_ratio, y_svr, y_kr, t0,
                   fitTimes, fig, traces, sizes, order, ests, ei, si,
                   train_time, test_time, plot2, li, clock, calls,
                   publisherOk, installs>>
    /\ UNCHANGED pageVars

\* t0 = time.time(); svr.fit(X[:train_size], y[:train_size]); svr_fit = ...
FitSVR ==
    /\ pc = "svr_fit"
    /\ \E sv \in SupportSets(SliceRows(X.rows, train_size)) :
        svr' = Fitted(svr, X, train_size, sv)
    /\ t0' = clock
    /\ calls' = Append(calls, [Call("fit", "svr", SliceRows(X.rows, train_size),
                                    X.start) EXCEPT !.at = clock + 1])
    /\ fitTimes' = [fitTimes EXCEPT !["svr_fit"] = Measure(clock, clock + 2)]
    /\ clock' = clock + 3
    /\ writers' = Wrote(writers, {"t0", "svr", "svr_fit"}, "fit")
    /\ pc' = "kr_fit"
    /\ UNCHANGED <<division, rng, X, y, X_plot, train_size, kr, sv_ratio,
                   y_svr, y_kr, fig, traces, sizes, order, ests, ei, si,
                   train_time, test_time, plot2, li, publisherOk, installs>>
    /\ UNCHANGED pageVars

\* t0 = time.time(); kr.fit(X[:train_size], y[:train_size]); kr_fit = ...
FitKR ==
    /\ pc = "kr_fit"
    /\ kr' = Fitted(kr, X, train_size, {})
    /\ t0' = clock
    /\ calls' = Append(calls, [Call("fit", "kr", SliceRows(X.rows, train_size),
                                    X.start) EXCEPT !.at = clock + 1])
    /\ fitTimes' = [fitTimes EXCEPT !["kr_fit"] = Measure(clock, clock + 2)]
    /\ clock' = clock + 3
    /\ writers' = Wrote(writers, {"t0", "kr", "kr_fit"}, "fit")
    /\ pc' = "ratio"
    /\ UNCHANGED <<division, rng, X, y, X_plot, train_size, svr, sv_ratio,
                   y_svr, y_kr, fig, traces, sizes, order, ests, ei, si,
                   train_time, test_time, plot2, li, publisherOk, installs>>
    /\ UNCHANGED pageVars

\* sv_ratio = svr.best_estimator_.support_.shape[0] / train_size
SupportVectorRatio ==
    /\ pc = "ratio"
    /\ sv_ratio' = Divide(Cardinality(svr.support), train_size, division)
    /\ writers' = Wrote(writers, {"sv_ratio"}, "fit")
    /\ pc' = "svr_pred"
    /\ UNCHANGED <<division, rng, X, y, X_plot, train_size, svr, kr, y_svr,
                   y_kr, t0, fitTimes, fig, traces, sizes, order, ests, ei,
                   si, train_time, test_time, plot2, li, clock, calls,
                   publisherOk, installs>>
    /\ UNCHANGED pageVars

\* estimator.predict(A) on n rows: one prediction per row, NotFittedError
\* when the estimator was never fitted
PredictMut(e, who, n) ==
    IF e.fitted THEN [ok |-> TRUE, out |-> [n |-> SliceRows(n, NPredict),
                                             by |-> who, data |-> e.data]]
    ELSE [ok |-> FALSE, out |-> NoPrediction]
Predict(e, who, n) ==
    IF e.fitted THEN [ok |-> TRUE, out |-> [n |-> n, by |-> who,
                                             data |-> e.data]]
    ELSE [ok |-> FALSE, out |-> NoPrediction]

\* t0 = time.time(); y_svr = svr.predict(X_plot); svr_predict = ...
PredictSVR ==
    /\ pc = "svr_pred"
    /\ LET p == Predict(svr, "svr", X_plot) IN
        /\ y_svr' = IF p.ok THEN p.out ELSE y_svr
        /\ fitTimes' = IF p.ok
                       THEN [fitTimes EXCEPT
                               !["svr_predict"] = Measure(clock, clock + 2)]
                       ELSE fitTimes
        /\ writers' = Wrote(writers, IF p.ok THEN {"t0", "y_svr", "svr_predict"}
                                     ELSE {"t0"}, "fit")
        /\ pc' = IF p.ok THEN "kr_pred" ELSE "raised"
    /\ t0' = clock
    /\ calls' = Append(calls, [Call("predict", "svr", X_plot, svr.data)
                                 EXCEPT !.at = clock + 1])
    /\ clock' = clock + 3
    /\ UNCHANGED <<division, rng, X, y, X_plot, train_size, svr, kr,
                   sv_ratio, y_kr, fig, traces, sizes, order, ests, ei, si,
                   train_time, test_time, plot2, li, publisherOk, installs>>
    /\ UNCHANGED pageVars

\* t0 = time.time(); y_kr = kr.predict(X_plot); kr_predict = ...
PredictKR ==
    /\ pc = "kr_pred"
    /\ LET p == Predict(kr, "kr", X_plot) IN
        /\ y_kr' = IF p.ok THEN p.out ELSE y_kr
        /\ fitTimes' = IF p.ok
                       THEN [fitTimes EXCEPT
                               !["kr_predict"] = Measure(clock, clock + 2)]
                       ELSE fitTimes
        /\ writers' = Wrote(writers, IF p.ok THEN {"t0", "y_kr", "kr_predict"}
                                     ELSE {"t0"}, "fit")
        /\ pc' = IF p.ok THEN "subplots" ELSE "raised"
    /\ t0' = clock
    /\ calls' = Append(calls, [Call("predict", "kr", X_plot, kr.data)
                                 EXCEPT !.at = clock + 1])
    /\ clock' = clock + 3
    /\ UNCHANGED <<division, rng, X, y, X_plot, train_size, svr, kr,
                   sv_ratio, y_svr, fig, traces, sizes, order, ests, ei, si,
                   train_time, test_time, plot2, li, publisherOk, installs>>
    /\ UNCHANGED pageVars

\* to_plotly(n): the list of float(n[i]) for i in range(len(n))
ToPlotly(c) == [c EXCEPT !.kind = "list"]

\* specs=[[{}, {}], [{}, None]]: TRUE for a subplot, FALSE for None
Specs == << <<TRUE, TRUE>>, <<TRUE, FALSE>> >>

\* tools.make_subplots(rows, cols, specs): the subplots are numbered row by
\* row, a None cell gets no axes (0)
MakeSubplots(rows, cols, specs) ==
    LET before(r, c) ==
            Cardinality({p \in (1..rows) \X (1..cols) :
                            /\ specs[p[1]][p[2]]
                            /\ \/ p[1] < r
                               \/ p[1] = r /\ p[2] < c})
    IN  [def    |-> TRUE,
         grid   |-> [r \in 1..rows |->
                      [c \in 1..cols |->
                          IF specs[r][c] THEN before(r, c) + 1 ELSE 0]],
         data   |-> <<>>,
         layout |-> {}]

\* fig.append_trace(t, row, col): raises when (row, col) is outside the grid
\* or is an empty cell
AppendTraceMut(f, t, row, col) ==
    [ok  |-> TRUE,
     fig |-> [f EXCEPT !.data = Append(@, [t EXCEPT !.axis = f.grid[col][row],
                                                    !.cell = <<col, row>>])]]
AppendTrace(f, t, row, col) ==
    IF /\ row \in DOMAIN f.grid
       /\ col \in DOMAIN f.grid[row]
       /\ f.grid[row][col] # 0
    THEN [ok  |-> TRUE,
          fig |-> [f EXCEPT !.data =
                      Append(@, [t EXCEPT !.axis = f.grid[row][col],
                                          !.cell = <<row, col>>])]]
    ELSE [ok |-> FALSE, fig |-> f]

\* fig['layout'][key].update(...)
LayoutUpdate(f, keys) == [f EXCEPT !.layout = @ \cup keys]

\* cell In[5], lines 1-11: to_plotly and the figure
MakeFigure ==
    /\ pc = "subplots"
    /\ fig' = MakeSubplots(2, 2, Specs)
    /\ calls' = Append(calls, Call("make_subplots", "fig", 0, -1))
    /\ writers' = Wrote(writers, {"to_plotly", "fig"}, "plot")
    /\ pc' = "traces14"
    /\ UNCHANGED <<division, rng, X, y, X_plot, train_size, svr, kr,
                   sv_ratio, y_svr, y_kr, t0, fitTimes, traces, sizes, order,
                   ests, ei, si, train_time, test_time, plot2, li, clock,
                   publisherOk, installs>>
    /\ UNCHANGED pageVars

\* cell In[5], lines 13-46: sv_ind, trace1..trace4, the first axis titles
BuildTraces ==
    /\ pc = "traces14"
    /\ LET nsv == Cardinality(svr.support) IN
       traces' = [traces EXCEPT
         !["trace1"] = Scatter(<<"SVR support vectors">>,
                         ToPlotly(Column("ndarray", nsv, "X[sv_ind]",
                                         X.start, <<>>)),
                         ToPlotly(Column("ndarray", nsv, "y[sv_ind]",
                                         y.src, <<>>))),
         !["trace2"] = Scatter(<<"data">>,
                         ToPlotly(Column("ndarray", SliceRows(X.rows, 100),
                                         "X[:100]", X.start, <<>>)),
                         ToPlotly(Column("ndarray",
                                         SliceRows(y.rows, 100),
                                         "y[:100]", y.src, <<>>))),
         !["trace3"] = Scatter(<<"SVR", "fit", "predict">>,
                         ToPlotly(Column("ndarray", X_plot, "X_plot", -1,
                                         <<>>)),
                         ToPlotly(Column("ndarray", y_svr.n, "y_svr",
                                         y_svr.data, <<>>))),
         !["trace4"] = Scatter(<<"KRR", "fit", "predict">>,
                         ToPlotly(Column("ndarray", X_plot, "X_plot", -1,
                                         <<>>)),
                         ToPlotly(Column("ndarray", y_kr.n, "y_kr",
                                         y_kr.data, <<>>)))]
    /\ fig' = LayoutUpdate(fig, {"xaxis1", "yaxis1"})
    /\ writers' = Wrote(writers, {"sv_ind", "trace1", "trace2", "trace3",
                                  "trace4", "fig"}, "plot")
    /\ li' = 1
    /\ pc' = "append11"
    /\ UNCHANGED <<division, rng, X, y, X_plot, train_size, svr, kr,
                   sv_ratio, y_svr, y_kr, t0, fitTimes, sizes, order, ests,
                   ei, si, train_time, test_time, plot2, clock, calls,
                   publisherOk, installs>>
    /\ UNCHANGED pageVars

\* for i in [trace1, trace2, trace3, trace4]: fig.append_trace(i, 1, 1)
AppendModelTraces ==
    /\ pc = "append11"
    /\ LET list == <<"trace1", "trace2", "trace3", "trace4">>
           a    == AppendTrace(fig, traces[list[li]], 1, 1)
       IN /\ fig' = a.fig
          /\ li' = li + 1
          /\ pc' = IF ~a.ok THEN "raised"
                   ELSE IF li = Len(list) THEN "regen" ELSE "append11"
    /\ writers' = Wrote(writers, {"i", "fig"}, "plot")
    /\ UNCHANGED <<division, rng, X, y, X_plot, train_size, svr, kr,
                   sv_ratio, y_svr, y_kr, t0, fitTimes, traces, sizes, order,
                   ests, ei, si, train_time, test_time, plot2, clock, calls,
                   publisherOk, installs>>
    /\ UNCHANGED pageVars

\* cell In[5], lines 54-58: the second sample data, sizes and plot2
RegenerateData ==
    /\ pc = "regen"
    /\ LET d == SampleData(rng) IN
        /\ rng' = d.rng
        /\ X' = d.X
        /\ y' = d.y
        /\ sizes' = IF d.ok THEN LogspaceTenths(1, 4, NSizes) ELSE sizes
        /\ pc' = IF d.ok THEN "est_loop" ELSE "raised"
        /\ writers' = Wrote(writers,
                            IF d.ok THEN {"rng", "X", "y", "sizes", "plot2"}
                            ELSE {"rng", "X", "y"}, "plot")
    /\ plot2' = <<>>
    /\ ei' = 0
    /\ UNCHANGED <<division, X_plot, train_size, svr, kr, sv_ratio, y_svr,
                   y_kr, t0, fitTimes, fig, traces, order, ests, si,
                   train_time, test_time, li, clock, calls, publisherOk,
                   installs>>
    /\ UNCHANGED pageVars

\* the orders in which {"KRR": ..., "SVR": ...}.items() may yield its items
DictOrders == {<<"KRR", "SVR">>, <<"SVR", "KRR">>}

\* for name, estimator in {...}.items(): train_time = []; test_time = []
\* (the dict is built and its order fixed on the first evaluation)
NextEstimatorMut ==
    /\ pc = "est_loop"
    /\ IF ei = 0
       THEN /\ order' \in DictOrders
            /\ ests' = [n \in {"KRR", "SVR"} |->
                          Estimator(IF n = "KRR" THEN "KernelRidge" ELSE "SVR")]
       ELSE UNCHANGED <<order, ests>>
    /\ IF ei < 2
       THEN /\ ei' = ei + 1
            /\ train_time' = IF ei = 0 THEN <<>> ELSE train_time
            /\ test_time' = IF ei = 0 THEN <<>> ELSE test_time
            /\ si' = 1
            /\ li' = li
            /\ pc' = "tfit"
            /\ writers' = Wrote(writers, {"name", "estimator", "train_time",
                                          "test_time"}, "plot")
       ELSE /\ li' = 1
            /\ pc' = "append12"
            /\ UNCHANGED <<ei, si, train_time, test_time, writers>>
    /\ UNCHANGED <<division, rng, X, y, X_plot, train_size, svr, kr,
                   sv_ratio, y_svr, y_kr, t0, fitTimes, fig, traces, sizes,
                   plot2, clock, calls, publisherOk, installs>>
    /\ UNCHANGED pageVars
NextEstimator ==
    /\ pc = "est_loop"
    /\ IF ei = 0
       THEN /\ order' \in DictOrders
            /\ ests' = [n \in {"KRR", "SVR"} |->
                          Estimator(IF n = "KRR" THEN "KernelRidge" ELSE "SVR")]
       ELSE UNCHANGED <<order, ests>>
    /\ IF ei < 2
       THEN /\ ei' = ei + 1
            /\ train_time' = <<>>
            /\ test_time' = <<>>
            /\ si' = 1
            /\ li' = li
            /\ pc' = "tfit"
            /\ writers' = Wrote(writers, {"name", "estimator", "train_time",
                                          "test_time"}, "plot")
       ELSE /\ li' = 1
            /\ pc' = "append12"
            /\ UNCHANGED <<ei, si, train_time, test_time, writers>>
    /\ UNCHANGED <<division, rng, X, y, X_plot, train_size, svr, kr,
                   sv_ratio, y_svr, y_kr, t0, fitTimes, fig, traces, sizes,
                   plot2, clock, calls, publisherOk, installs>>
    /\ UNCHANGED pageVars

\* t0 = time.time(); estimator.fit(X[:train_test_size], y[:train_test_size]);
\* train_time.append(time.time() - t0)
TimingFitMut ==
    /\ pc = "tfit"
    /\ LET name == order[ei]
           k    == TruncTenths(sizes[1])
       IN /\ ests' = [ests EXCEPT ![name] = Fitted(@, X, k, {})]
          /\ calls' = Append(calls,
                        [Call("fit", name, SliceRows(X.rows, k), X.start)
                           EXCEPT !.at = clock + 1])
    /\ t0' = clock
    /\ train_time' = Append(train_time, Measure(clock, clock + 2))
    /\ clock' = clock + 3
    /\ writers' = Wrote(writers, {"train_test_size", "t0", "estimator",
                                  "train_time"}, "plot")
    /\ pc' = "tpred"
    /\ UNCHANGED <<division, rng, X, y, X_plot, train_size, svr, kr,
                   sv_ratio, y_svr, y_kr, fitTimes, fig, traces, sizes, order,
                   ei, si, test_time, plot2, li, publisherOk, installs>>
    /\ UNCHANGED pageVars
TimingFit ==
    /\ pc = "tfit"
    /\ LET name == order[ei]
           k    == TruncTenths(sizes[si])
       IN /\ ests' = [ests EXCEPT ![name] = Fitted(@, X, k, {})]
          /\ calls' = Append(calls,
                        [Call("fit", name, SliceRows(X.rows, k), X.start)
                           EXCEPT !.at = clock + 1])
    /\ t0' = clock
    /\ train_time' = Append(train_time, Measure(clock, clock + 2))
    /\ clock' = clock + 3
    /\ writers' = Wrote(writers, {"train_test_size", "t0", "estimator",
                                  "train_time"}, "plot")
    /\ pc' = "tpred"
    /\ UNCHANGED <<division, rng, X, y, X_plot, train_size, svr, kr,
                   sv_ratio, y_svr, y_kr, fitTimes, fig, traces, sizes, order,
                   ei, si, test_time, plot2, li, publisherOk, installs>>
    /\ UNCHANGED pageVars

\* t0 = time.time(); estimator.predict(X_plot[:1000]);
\* test_time.append(time.time() - t0)
TimingPredict ==
    /\ pc = "tpred"
    /\ LET name == order[ei]
           p    == Predict(ests[name], name, SliceRows(X_plot, NPredict))
       IN /\ calls' = Append(calls,
                        [Call("predict", name, SliceRows(X_plot, NPredict),
                              ests[name].data) EXCEPT !.at = clock + 1])
          /\ test_time' = IF p.ok
                          THEN Append(test_time, Measure(clock, clock + 2))
                          ELSE test_time
          /\ pc' = IF ~p.ok THEN "raised"
                   ELSE IF si = Len(sizes) THEN "ttraces" ELSE "tfit"
    /\ t0' = clock
    /\ clock' = clock + 3
    /\ si' = si + 1
    /\ writers' = Wrote(writers, {"t0", "test_time"}, "plot")
    /\ UNCHANGED <<division, rng, X, y, X_plot, train_size, svr, kr,
                   sv_ratio, y_svr, y_kr, fitTimes, fig, traces, sizes, order,
                   ests, ei, train_time, plot2, li, publisherOk, installs>>
    /\ UNCHANGED pageVars

\* trace5 = go.Scatter(x=sizes, y=train_time, ...); trace6 = ...(y=test_time);
\* plot2.append(trace5); plot2.append(trace6)
BuildTimingTraces ==
    /\ pc = "ttraces"
    /\ LET name == order[ei]
           xs   == Column("ndarray", Len(sizes), "sizes", -1, sizes)
           t5   == Scatter(<<name, "train">>, xs,
                           Column("list", Len(train_time), "train_time",
                                  X.start, train_time))
           t6   == Scatter(<<name, "test">>, xs,
                           Column("list", Len(test_time), "test_time",
                                  X.start, test_time))
       IN /\ traces' = [traces EXCEPT !["trace5"] = t5, !["trace6"] = t6]
          /\ plot2' = plot2 \o <<t5, t6>>
    /\ writers' = Wrote(writers, {"trace5", "trace6", "plot2"}, "plot")
    /\ pc' = "est_loop"
    /\ UNCHANGED <<division, rng, X, y, X_plot, train_size, svr, kr,
                   sv_ratio, y_svr, y_kr, t0, fitTimes, fig, sizes, order,
                   ests, ei, si, train_time, test_time, li, clock, calls,
                   publisherOk, installs>>
    /\ UNCHANGED pageVars

\* for i in range(len(plot2)): fig.append_trace(plot2[i], 1, 2)
AppendTimingTraces ==
    /\ pc = "append12"
    /\ IF li <= Len(plot2)
       THEN LET a == AppendTrace(fig, plot2[li], 1, 2) IN
            /\ fig' = a.fig
            /\ li' = li + 1
            /\ pc' = IF a.ok THEN "append12" ELSE "raised"
            /\ writers' = Wrote(writers, {"i", "fig"}, "plot")
       ELSE /\ pc' = "layout2"
            /\ UNCHANGED <<fig, li, writers>>
    /\ UNCHANGED <<division, rng, X, y, X_plot, train_size, svr, kr,
                   sv_ratio, y_svr, y_kr, t0, fitTimes, traces, sizes, order,
                   ests, ei, si, train_time, test_time, plot2, clock, calls,
                   publisherOk, installs>>
    /\ UNCHANGED pageVars

\* fig['layout']['xaxis2'].update(...); fig['layout']['yaxis2'].update(...)
LayoutTimeAxesMut ==
    /\ pc = "layout2"
    /\ fig' = LayoutUpdate(fig, {"xaxis2", "yaxis2"})
    /\ writers' = Wrote(writers, {"fig"}, "plot")
    /\ pc' = "iplot"
    /\ UNCHANGED <<division, rng, X, y, X_plot, train_size, svr, kr,
                   sv_ratio, y_svr, y_kr, t0, fitTimes, traces, sizes, order,
                   ests, ei, si, train_time, test_time, plot2, li, clock,
                   calls, publisherOk, installs>>
    /\ UNCHANGED pageVars
LayoutTimeAxes ==
    /\ pc = "layout2"
    /\ fig' = LayoutUpdate(fig, {"xaxis2", "yaxis2"})
    /\ writers' = Wrote(writers, {"fig"}, "plot")
    /\ pc' = "rebind"
    /\ UNCHANGED <<division, rng, X, y, X_plot, train_size, svr, kr,
                   sv_ratio, y_svr, y_kr, t0, fitTimes, traces, sizes, order,
                   ests, ei, si, train_time, test_time, plot2, li, clock,
                   calls, publisherOk, installs>>
    /\ UNCHANGED pageVars

\* svr = SVR(kernel='rbf', C=1e1, gamma=0.1); kr = KernelRidge(...)
RebindEstimatorsMut ==
    /\ pc = "rebind"
    /\ pc' = "curves"
    /\ UNCHANGED <<division, rng, X, y, X_plot, train_size, sv_ratio, y_svr,
                   y_kr, t0, fitTimes, fig, traces, sizes, order, ests, ei,
                   si, train_time, test_time, plot2, li, clock, calls,
                   publisherOk, installs, svr, kr, writers>>
    /\ UNCHANGED pageVars
RebindEstimators ==
    /\ pc = "rebind"
    /\ svr' = Estimator("SVR")
    /\ kr' = Estimator("KernelRidge")
    /\ writers' = Wrote(writers, {"svr", "kr"}, "plot")
    /\ pc' = "curves"
    /\ UNCHANGED <<division, rng, X, y, X_plot, train_size, sv_ratio, y_svr,
                   y_kr, t0, fitTimes, fig, traces, sizes, order, ests, ei,
                   si, train_time, test_time, plot2, li, clock, calls,
                   publisherOk, installs>>
    /\ UNCHANGED pageVars

\* learning_curve(e, X[:k], y[:k], train_sizes=np.linspace(0.1, 1, points),
\* cv=folds): fits clones of e, returns the absolute training sizes and one
\* row of fold scores per training size
LearningCurve(x, k, points, folds) ==
    LET n    == SliceRows(x.rows, k)
        nmax == n - (n \div folds)
        frac == Linspace(1, 10, points, 1)
    IN  [sizes |-> [j \in 1..points |-> (frac[j] * nmax) \div 10],
         rows  |-> points,
         cols  |-> folds,
         data  |-> x.start]

\* cell In[5], lines 99-113: the two learning curves, trace7 and trace8
BuildLearningCurves ==
    /\ pc = "curves"
    /\ LET ls == LearningCurve(X, 100, LCPoints, LCFolds)
           lk == LearningCurve(X, 100, LCPoints, LCFolds)
           xs == Column("ndarray", Len(ls.sizes), "train_sizes", ls.data,
                        ls.sizes)
       IN /\ traces' = [traces EXCEPT
                !["trace7"] = Scatter(<<"SVR">>, xs,
                                Column("ndarray", ls.rows,
                                       "-test_scores_svr.mean(1)", ls.data,
                                       <<>>)),
                !["trace8"] = Scatter(<<"KRR">>, xs,
                                Column("ndarray", lk.rows,
                                       "-test_scores_kr.mean(1)", lk.data,
                                       <<>>))]
          /\ calls' = calls \o
                <<Call("learning_curve", "svr", SliceRows(X.rows, 100),
                       X.start),
                  Call("learning_curve", "kr", SliceRows(X.rows, 100),
                       X.start)>>
    /\ writers' = Wrote(writers, {"train_sizes", "train_scores_svr",
                                  "test_scores_svr", "train_sizes_abs",
                                  "train_scores_kr", "test_scores_kr",
                                  "trace7", "trace8"}, "plot")
    /\ li' = 1
    /\ pc' = "append21"
    /\ UNCHANGED <<division, rng, X, y, X_plot, train_size, svr, kr,
                   sv_ratio, y_svr, y_kr, t0, fitTimes, fig, sizes, order,
                   ests, ei, si, train_time, test_time, plot2, clock,
                   publisherOk, installs>>
    /\ UNCHANGED pageVars

\* fig.append_trace(trace7, 2, 1); fig.append_trace(trace8, 2, 1)
AppendCurveTraces ==
    /\ pc = "append21"
    /\ LET list == <<"trace7", "trace8">>
           a    == AppendTrace(fig, traces[list[li]], 2, 1)
       IN /\ fig' = a.fig
          /\ li' = li + 1
          /\ pc' = IF ~a.ok THEN "raised"
                   ELSE IF li = Len(list) THEN "layout3" ELSE "append21"
    /\ writers' = Wrote(writers, {"fig"}, "plot")
    /\ UNCHANGED <<division, rng, X, y, X_plot, train_size, svr, kr,
                   sv_ratio, y_svr, y_kr, t0, fitTimes, traces, sizes, order,
                   ests, ei, si, train_time, test_time, plot2, clock, calls,
                   publisherOk, installs>>
    /\ UNCHANGED pageVars

\* fig['layout']['xaxis3'].update(...); ...['yaxis3'].update(...);
\* fig['layout'].update(height = 900)
LayoutFinish ==
    /\ pc = "layout3"
    /\ fig' = LayoutUpdate(fig, {"xaxis3", "yaxis3", "height"})
    /\ writers' = Wrote(writers, {"fig"}, "plot")
    /\ pc' = "iplot"
    /\ UNCHANGED <<division, rng, X, y, X_plot, train_size, svr, kr,
                   sv_ratio, y_svr, y_kr, t0, fitTimes, traces, sizes, order,
                   ests, ei, si, train_time, test_time, plot2, li, clock,
                   calls, publisherOk, installs>>
    /\ UNCHANGED pageVars

\* cell In[6]: py.iplot(fig, filename='comparision')
\* (the call records how many traces and layout updates fig holds)
IPlot ==
    /\ pc = "iplot"
    /\ calls' = Append(calls, Call("iplot", "comparision", Len(fig.data),
                                   Cardinality(fig.layout)))
    /\ pc' = "display"
    /\ UNCHANGED <<division, rng, X, y, X_plot, train_size, svr, kr,
                   sv_ratio, y_svr, y_kr, t0, fitTimes, fig, traces, sizes,
                   order, ests, ei, si, train_time, test_time, plot2, li,
                   clock, writers, publisherOk, installs>>
    /\ UNCHANGED pageVars

\* last cell, lines 1-4: the two display(HTML(...)) calls
DisplayStyles ==
    /\ pc = "display"
    /\ calls' = calls \o <<Call("display", "fonts", 0, -1),
                           Call("display", "css", 0, -1)>>
    /\ pc' = "install"
    /\ UNCHANGED <<division, rng, X, y, X_plot, train_size, svr, kr,
                   sv_ratio, y_svr, y_kr, t0, fitTimes, fig, traces, sizes,
                   order, ests, ei, si, train_time, test_time, plot2, li,
                   clock, writers, publisherOk, installs>>
    /\ UNCHANGED pageVars

\* ! pip install git+https://github.com/plotly/publisher.git --upgrade
\* a shell escape: its exit status is not inspected, the next line runs
PipInstallMut ==
    /\ pc = "install"
    /\ \E outcome \in {"ok", "error"} :
        /\ installs' = Append(installs, outcome)
        /\ pc' = IF outcome = "error" /\ Len(installs) < 2
                 THEN "install" ELSE "import"
    /\ calls' = Append(calls, Call("pip", "publisher", Len(installs) + 1, -1))
    /\ UNCHANGED <<division, rng, X, y, X_plot, train_size, svr, kr,
                   sv_ratio, y_svr, y_kr, t0, fitTimes, fig, traces, sizes,
                   order, ests, ei, si, train_time, test_time, plot2, li,
                   clock, writers, publisherOk>>
    /\ UNCHANGED pageVars
PipInstall ==
    /\ pc = "install"
    /\ \E outcome \in {"ok", "error"} :
        installs' = Append(installs, outcome)
    /\ calls' = Append(calls, Call("pip", "publisher", Len(installs) + 1, -1))
    /\ pc' = "import"
    /\ UNCHANGED <<division, rng, X, y, X_plot, train_size, svr, kr,
                   sv_ratio, y_svr, y_kr, t0, fitTimes, fig, traces, sizes,
                   order, ests, ei, si, train_time, test_time, plot2, li,
                   clock, writers, publisherOk>>
    /\ UNCHANGED pageVars

\* import publisher: succeeds when the kernel's interpreter finds the module
\* (installed now or earlier), raises ImportError otherwise; pip is the one
\* on the shell's path (/usr/bin/python in the stored output), the kernel
\* need not be that interpreter, so neither outcome of the install step
\* decides the import
ImportPublisher ==
    /\ pc = "import"
    /\ \E found \in {"yes", "no"} :
        /\ publisherOk' = found
        /\ pc' = IF found = "yes" THEN "publish" ELSE "import_error"
        /\ writers' = IF found = "yes"
                      THEN Wrote(writers, {"publisher"}, "publish")
                      ELSE writers
    /\ calls' = Append(calls, Call("import", "publisher", 0, -1))
    /\ UNCHANGED <<division, rng, X, y, X_plot, train_size, svr, kr,
                   sv_ratio, y_svr, y_kr, t0, fitTimes, fig, traces, sizes,
                   order, ests, ei, si, train_time, test_time, plot2, li,
                   clock, installs>>
    /\ UNCHANGED pageVars

\* publisher.publish('comparision.ipynb', ...)
Publish ==
    /\ pc = "publish"
    /\ calls' = Append(calls, Call("publish", "comparision.ipynb", 0, -1))
    /\ pc' = "done"
    /\ UNCHANGED <<division, rng, X, y, X_plot, train_size, svr, kr,
                   sv_ratio, y_svr, y_kr, t0, fitTimes, fig, traces, sizes,
                   order, ests, ei, si, train_time, test_time, plot2, li,
                   clock, writers, publisherOk, installs>>
    /\ UNCHANGED pageVars

----------------------------------------------------------------------------
(* The page 2015-06-30-2d-histograms.html                                   *)

\* the lines between the two "---" lines, each split at its first ": "
FrontMatterMut ==
    << [key |-> "permalink",     value |-> "python/2D-Histogram/"],
       [key |-> "description",
        value |-> "How to make 2D Histograms in Python with Plotly."],
       [key |-> "name",          value |-> "Python 2D Histograms | plotly"],
       [key |-> "has_thumbnail", value |-> "true"],
       [key |-> "thumbnail",     value |-> "thumbnail/histogram2d.jpg"],
       [key |-> "layout",        value |-> "user-guide"],
       [key |-> "name",          value |-> "2D Histograms"],
       [key |-> "language",      value |-> "python"],
       [key |-> "title",         value |-> "Python 2D Histograms | plotly"],
       [key |-> "display_as",    value |-> "statistical"],
       [key |-> "has_thumbnail", value |-> "true"],
       [key |-> "order",         value |-> "6"],
       [key |-> "page_type",     value |-> "u-guide"] >>
FrontMatter ==
    << [key |-> "permalink",     value |-> "python/2D-Histogram/"],
       [key |-> "description",
        value |-> "How to make 2D Histograms in Python with Plotly."],
       [key |-> "name",          value |-> "Python 2D Histograms | plotly"],
       [key |-> "has_thumbnail", value |-> "true"],
       [key |-> "thumbnail",     value |-> "thumbnail/histogram2d.jpg"],
       [key |-> "layout",        value |-> "user-guide"],
       [key |-> "name",          value |-> "2D Histograms"],
       [key |-> "language",      value |-> "python"],
       [key |-> "title",         value |-> "Python 2D Histograms | plotly"],
       [key |-> "display_as",    value |-> "statistical"],
       [key |-> "has_thumbnail", value |-> "true"],
       [key |-> "ipynb",         value |-> "~notebook_demo/24"],
       [key |-> "order",         value |-> "6"],
       [key |-> "page_type",     value |-> "u-guide"] >>

\* a mapping with key bound to value; a repeated key takes the later value
Bind(m, key, value) ==
    [k \in (DOMAIN m) \cup {key} |-> IF k = key THEN value ELSE m[k]]

\* the site generator reads the next line of the front-matter block
ReadFrontMatterLine ==
    /\ fmLine < Len(FrontMatter)
    /\ fmLine' = fmLine + 1
    /\ fmKeys' = Bind(fmKeys, FrontMatter[fmLine + 1].key,
                      FrontMatter[fmLine + 1].value)
    /\ UNCHANGED <<kernel, exRun, exPos, exDone>>
    /\ UNCHANGED nbVars

\* a statement of an example: the names it reads and the names it binds
Stmt(reads, writes) == [reads |-> reads, writes |-> writes]

ImportLines == << Stmt({}, {"py"}), Stmt({}, {"go"}), Stmt({}, {"np"}) >>

\* In[3], "2D Histogram of a Bivariate Normal Distribution"
ExampleNormal ==
    ImportLines \o
    << Stmt({"np"}, {"x"}), Stmt({"np"}, {"y"}),
       Stmt({"go", "x", "y"}, {"data"}),
       Stmt({"py", "data"}, {}) >>

\* In[4], "2D Histogram Binning and Styling Options"
ExampleBinningMut ==
    << Stmt({"np"}, {"x"}), Stmt({"np"}, {"y"}),
       Stmt({"go", "x", "y"}, {"data"}),
       Stmt({"py", "data"}, {}) >>
ExampleBinning ==
    ImportLines \o
    << Stmt({"np"}, {"x"}), Stmt({"np"}, {"y"}),
       Stmt({"go", "x", "y"}, {"data"}),
       Stmt({"py", "data"}, {}) >>

\* In[1], "2D Histogram Overlaid with a Scatter Chart"
ExampleOverlay ==
    ImportLines \o
    << Stmt({"np"}, {"x0"}), Stmt({"np"}, {"y0"}),
       Stmt({"np"}, {"x1"}), Stmt({"np"}, {"y1"}),
       Stmt({"np", "x0", "x1"}, {"x"}), Stmt({"np", "y0", "y1"}, {"y"}),
       Stmt({"go", "x0", "y0"}, {"trace1"}),
       Stmt({"go", "x1", "y1"}, {"trace2"}),
       Stmt({"go", "x", "y"}, {"trace3"}),
       Stmt({"go"}, {"layout"}),
       Stmt({"trace1", "trace2", "trace3"}, {"data"}),
       Stmt({"go", "data", "layout"}, {"fig"}),
       Stmt({"py", "fig"}, {}) >>

Examples == << ExampleNormal, ExampleBinning, ExampleOverlay >>

\* a reader starts running example e in the current interpreter
StartExample(e) ==
    /\ exRun = 0
    /\ Len(exDone) < MaxRuns
    /\ exRun' = e
    /\ exPos' = 0
    /\ UNCHANGED <<fmLine, fmKeys, kernel, exDone>>
    /\ UNCHANGED nbVars

\* the interpreter executes the next statement of the running example; a
\* read of an unbound name raises NameError and ends the example
ExecStatement ==
    /\ exRun # 0
    /\ exPos < Len(Examples[exRun])
    /\ LET st == Examples[exRun][exPos + 1] IN
       IF st.reads \subseteq DOMAIN kernel
       THEN /\ kernel' = [n \in (DOMAIN kernel) \cup st.writes |->
                            IF n \in st.writes THEN exRun ELSE kernel[n]]
            /\ exPos' = exPos + 1
            /\ UNCHANGED <<exRun, exDone>>
       ELSE /\ exDone' = Append(exDone, [ex |-> exRun, ok |-> FALSE])
            /\ exRun' = 0
            /\ exPos' = 0
            /\ UNCHANGED kernel
    /\ UNCHANGED <<fmLine, fmKeys>>
    /\ UNCHANGED nbVars

\* the running example has executed its last statement
FinishExample ==
    /\ exRun # 0
    /\ exPos = Len(Examples[exRun])
    /\ exDone' = Append(exDone, [ex |-> exRun, ok |-> TRUE])
    /\ exRun' = 0
    /\ exPos' = 0
    /\ UNCHANGED <<fmLine, fmKeys, kernel>>
    /\ UNCHANGED nbVars

\* the reader restarts the interpreter: every name is unbound again
RestartKernel ==
    /\ exRun = 0
    /\ DOMAIN kernel # {}
    /\ kernel' = <<>>
    /\ UNCHANGED <<fmLine, fmKeys, exRun, exPos, exDone>>
    /\ UNCHANGED nbVars

PageIdle ==
    /\ fmLine = 0
    /\ fmKeys = <<>>
    /\ kernel = <<>>
    /\ exRun = 0
    /\ exPos = 0
    /\ exDone = <<>>

Init == NotebookInit /\ PageIdle

Next ==
    \/ Imports
    \/ GenerateSampleData
    \/ BuildGridSearch
    \/ FitSVR
    \/ FitKR
    \/ SupportVectorRatio
    \/ PredictSVR
    \/ PredictKR
    \/ MakeFigure
    \/ BuildTraces
    \/ AppendModelTraces
    \/ RegenerateData
    \/ NextEstimator
    \/ TimingFit
    \/ TimingPredict
    \/ BuildTimingTraces
    \/ AppendTimingTraces
    \/ LayoutTimeAxes
    \/ RebindEstimators
    \/ BuildLearningCurves
    \/ AppendCurveTraces
    \/ LayoutFinish
    \/ IPlot
    \/ DisplayStyles
    \/ PipInstall
    \/ ImportPublisher
    \/ Publish

Spec == Init /\ [][Next]_vars

PageNext ==
    \/ ReadFrontMatterLine
    \/ \E e \in 1..Len(Examples) : StartExample(e)
    \/ ExecStatement
    \/ FinishExample
    \/ RestartKernel

SpecPage == Init /\ [][PageNext]_vars

----------------------------------------------------------------------------
(* Properties                                                               *)

CallsOf(op) == {j \in 1..Len(calls) : calls[j].op = op}
Issued(op) == Cardinality(CallsOf(op))
Generated == pc \notin {"imports", "gen"}
Uploaded == pc \in {"display", "install", "import", "publish", "done",
                    "import_error"}

\* C1: after each dataset generation (10000 rows, y = sin(X)) exactly the
\* targets whose index is a multiple of 5 carry noise: every other target is
\* still sin(X[i]), the X.shape[0]/5 = 2000 noise values drawn are as many as
\* the targets y[::5] selects, and each selected target received exactly one
\* of them, the k-th selected target the k-th value.
C1_NoiseEveryFifth ==
    Generated =>
        /\ pc # "raised"
        /\ X.rows = NRows
        /\ y.src = X.start
        /\ y.rows = X.rows
        /\ rng.drawn - (X.start + X.rows) = NoiseCount(X.rows)
        /\ NoiseCount(X.rows) = Cardinality(StrideIdx(X.rows, NoiseStride))
        /\ NoiseCount(X.rows) = 2000
        /\ \A i \in 0..(NRows - 1) :
            YNoise(y, i) = IF i % 5 = 0
                           THEN <<X.start + X.rows + (i \div 5)>>
                           ELSE <<>>

\* the second dataset has been generated and noised
C1_Witness ==
    /\ pc = "est_loop"
    /\ X.start > 0
    /\ Len(YNoise(y, 5)) = 1
    /\ YNoise(y, 4) = <<>>

\* the k-th predict call of a timing estimator, counted over the history
PredictsBefore(j) ==
    Cardinality({i \in 1..j : calls[i].op = "predict"
                              /\ calls[i].who = calls[j].who})
LastFit(j) ==
    LET fits == {i \in 1..(j - 1) : calls[i].op = "fit"
                                    /\ calls[i].who = calls[j].who}
    IN  IF fits = {} THEN 0
        ELSE CHOOSE i \in fits : \A h \in fits : h <= i

\* C2: no model is asked to predict before it has been fitted: every predict
\* call is preceded by a fit call on the same model, and in the timing loop
\* the last fit before the k-th prediction of an estimator is the fit on the
\* k-th training size, on rows of the dataset current at that time.
C2_FitBeforePredict ==
    /\ pc # "raised"
    /\ \A j \in CallsOf("predict") :
        /\ LastFit(j) # 0
        /\ calls[j].data = calls[LastFit(j)].data
        /\ calls[j].who \in {"KRR", "SVR"} =>
            /\ LastFit(j) = j - 1
            /\ calls[LastFit(j)].n =
                 SliceRows(NRows, TruncTenths(sizes[PredictsBefore(j)]))
    /\ pc = "tpred" =>
        /\ ests[order[ei]].fitted
        /\ ests[order[ei]].rows = SliceRows(X.rows, TruncTenths(sizes[si]))
        /\ ests[order[ei]].data = X.start

\* a timed prediction of the second estimator on the third size was made
C2_Witness ==
    /\ pc = "tfit"
    /\ ei = 2
    /\ si = 4
    /\ Issued("predict") = 2 + NSizes + 3

\* C3: the plot upload py.iplot is issued at most once, exactly once when the
\* upload cell has run, and only with all 10 traces appended and all 7 layout
\* updates applied to fig; publisher.publish is issued at most once, after
\* the upload, and no external call follows it.
C3_UploadThenPublish ==
    /\ Issued("iplot") <= 1
    /\ Uploaded => Issued("iplot") = 1
    /\ \A j \in CallsOf("iplot") :
        /\ calls[j].n = 10
        /\ calls[j].data = 7
        /\ calls[j].n = Len(fig.data)
        /\ calls[j].data = Cardinality(fig.layout)
    /\ Issued("publish") <= 1
    /\ pc = "done" => Issued("publish") = 1
    /\ \A j \in CallsOf("publish") :
        /\ j = Len(calls)
        /\ \E i \in CallsOf("iplot") : i < j

\* the run ended with the publish call
C3_Witness ==
    /\ pc = "done"
    /\ calls[Len(calls)].op = "publish"
    /\ Issued("iplot") = 1

Ended == pc \in {"done", "import_error", "raised"}

\* C4 as stated: a failed install step is attempted exactly once and the run
\* continues to import publisher and to the single publisher.publish call.
C4_FailedInstallStillPublishes ==
    (Ended /\ installs # <<>> /\ installs[1] = "error") =>
        /\ Len(installs) = 1
        /\ Issued("import") = 1
        /\ Issued("publish") = 1

\* C4 (amended): a failed install step is neither handled nor retried: it is
\* attempted exactly once, the statement after it is import publisher
\* whatever its outcome, no notebook variable is written by it, and
\* publisher.publish is called once if that import succeeds; if the import
\* raises, the run ends without a publish call.
C4_FailedInstallNotHandled ==
    /\ [](/\ Len(installs) <= 1
          /\ Issued("pip") = Len(installs)
          /\ pc \in {"import", "publish", "done", "import_error"}
                => Len(installs) = 1
          /\ pc = "import_error" => /\ Issued("import") = 1
                                    /\ Issued("publish") = 0
                                    /\ publisherOk = "no"
          /\ pc = "done" => /\ Issued("import") = 1
                            /\ Issued("publish") = 1
                            /\ publisherOk = "yes")
    /\ [][pc = "install" => /\ pc' = "import"
                            /\ writers' = writers]_vars

\* the install step failed and the run went on to publish
C4_Witness ==
    /\ pc = "done"
    /\ installs = <<"error">>
    /\ Issued("publish") = 1

Range(q) == {q[j] : j \in DOMAIN q}
IsGrid(e) == e.cv > 0

\* C5: both grid searches are set up alike: 4 values of C resp. alpha times
\* the same 5 gamma candidates make 20 combinations each, both use 5-fold
\* cross-validation, and both are fitted on the first train_size = 100 rows
\* of the same X and y.
C5_GridsAlike ==
    /\ (IsGrid(svr) /\ IsGrid(kr)) =>
        /\ train_size = 100
        /\ Len(svr.p1) = 4 /\ Cardinality(Range(svr.p1)) = 4
        /\ Len(kr.p1) = 4 /\ Cardinality(Range(kr.p1)) = 4
        /\ svr.gamma = kr.gamma
        /\ Len(svr.gamma) = 5 /\ Cardinality(Range(svr.gamma)) = 5
        /\ GridSize(svr) = 20
        /\ GridSize(kr) = 20
        /\ svr.cv = 5
        /\ kr.cv = 5
    /\ (IsGrid(svr) /\ IsGrid(kr) /\ svr.fitted /\ kr.fitted) =>
        /\ svr.rows = 100
        /\ kr.rows = 100
        /\ svr.data = kr.data
        /\ svr.data = 0
        /\ svr.support \subseteq 0..(train_size - 1)

\* both grid searches have been fitted
C5_Witness ==
    /\ pc = "ratio"
    /\ IsGrid(svr) /\ svr.fitted
    /\ IsGrid(kr) /\ kr.fitted

\* the call that a recorded time measured: it happened one tick after t0
TimedCall(m) == CHOOSE c \in Range(calls) : c.at = m.from + 1
IsTimed(m, op, who, k) ==
    /\ \E c \in Range(calls) : c.at = m.from + 1
    /\ TimedCall(m).op = op
    /\ TimedCall(m).who = who
    /\ TimedCall(m).n = k

TracesIn(r, c) == {j \in DOMAIN fig.data : fig.data[j].cell = <<r, c>>}

\* C7: the figure is a 2x2 grid whose cell (2,2) is empty; no trace is ever
\* placed in that cell, and the uploaded figure holds exactly 10 traces: the
\* 4 model traces in (1,1), the 4 timing traces in (1,2) and the 2
\* learning curves in (2,1).
C7_TracesPerSubplot ==
    /\ pc # "raised"
    /\ fig.def =>
        /\ fig.grid[2][2] = 0
        /\ fig.grid[1][1] = 1 /\ fig.grid[1][2] = 2 /\ fig.grid[2][1] = 3
        /\ TracesIn(2, 2) = {}
        /\ \A j \in DOMAIN fig.data :
            /\ fig.data[j].axis # 0
            /\ fig.data[j].axis = fig.grid[fig.data[j].cell[1]]
                                          [fig.data[j].cell[2]]
    /\ Issued("iplot") > 0 =>
        /\ Len(fig.data) = 10
        /\ {fig.data[j].name : j \in TracesIn(1, 1)} =
              {<<"SVR support vectors">>, <<"data">>,
               <<"SVR", "fit", "predict">>, <<"KRR", "fit", "predict">>}
        /\ Cardinality(TracesIn(1, 1)) = 4
        /\ {fig.data[j].name : j \in TracesIn(1, 2)} =
              {"KRR", "SVR"} \X {"train", "test"}
        /\ Cardinality(TracesIn(1, 2)) = 4
        /\ {fig.data[j].name : j \in TracesIn(2, 1)} = {<<"SVR">>, <<"KRR">>}
        /\ Cardinality(TracesIn(2, 1)) = 2

\* the complete figure has been uploaded
C7_Witness ==
    /\ pc = "display"
    /\ Issued("iplot") = 1
    /\ Len(fig.data) = 10

\* C8: the support vector ratio is the number of support vectors of the best
\* SVR divided by train_size = 100 in true division: ratio * 100 equals the
\* number of support vectors, so it is positive as soon as there is one
\* support vector, and it lies between 0 and 1 inclusive (sv_ratio is held
\* in thousandths).
C8_TrueDivisionRatio ==
    /\ sv_ratio # -1 =>
        /\ 0 <= sv_ratio
        /\ sv_ratio <= 1000
    /\ (sv_ratio # -1 /\ IsGrid(svr)) =>
        /\ train_size = 100
        /\ sv_ratio * train_size = 1000 * Cardinality(svr.support)
        /\ Cardinality(svr.support) > 0 => sv_ratio > 0
        /\ Cardinality(svr.support) <= train_size

\* fewer than 100 but more than 0 support vectors: floor division gives 0
C8_Witness ==
    /\ pc = "svr_pred"
    /\ Cardinality(svr.support) > 0
    /\ Cardinality(svr.support) < train_size
    /\ sv_ratio > 0
    /\ sv_ratio < 1000

\* the front-matter keys named in section 6 of the specification
PipelineKeys == {"permalink", "description", "name", "layout", "language",
                 "title", "display_as", "has_thumbnail", "thumbnail", "ipynb",
                 "order", "page_type"}

\* C9: the front-matter block of the 2D-histogram page defines every key the
\* publishing pipeline consumes: once the block is read, each of the 12 keys
\* is bound.
C9_FrontMatterKeys ==
    fmLine = Len(FrontMatter) => PipelineKeys \subseteq DOMAIN fmKeys

\* the whole block has been read
C9_Witness ==
    /\ fmLine = Len(FrontMatter)
    /\ fmLine = 14
    /\ "page_type" \in DOMAIN fmKeys
    /\ fmKeys["name"] = "2D Histograms"

Rewritten == {n \in Names : Cardinality(writers[n]) > 1}

\* C10 as stated: no variable written by one step of the run is re-assigned
\* or mutated in place by another step.
C10_NoSharedMutableState ==
    \A n \in Names : Cardinality(writers[n]) <= 1

\* C10 (amended): the steps of a run share mutable state: rng, X and y,
\* written by the data-generation step, and svr, kr and t0, written by the
\* fitting step, are re-assigned or mutated in place by the plotting step;
\* no other variable is written by more than one step, and the traces built
\* before the re-assignment keep the first dataset.
C10_SharedNames ==
    /\ Rewritten \subseteq {"rng", "X", "y", "svr", "kr", "t0"}
    /\ \A n \in Rewritten :
        writers[n] = {IF n \in {"rng", "X", "y"} THEN "gen" ELSE "fit", "plot"}
    /\ Uploaded =>
        /\ Rewritten = {"rng", "X", "y", "svr", "kr", "t0"}
        /\ X.start # 0
        /\ ~IsGrid(svr) /\ ~svr.fitted
        /\ ~IsGrid(kr) /\ ~kr.fitted
        /\ \A j \in TracesIn(1, 1) :
            /\ fig.data[j].x.data \in {0, -1}
            /\ fig.data[j].y.data = 0

\* the plotting step has re-assigned the names of the earlier steps
C10_Witness ==
    /\ pc = "iplot"
    /\ writers["X"] = {"gen", "plot"}
    /\ writers["svr"] = {"fit", "plot"}
    /\ X.start = NRows + NoiseCount(NRows)

\* the statement the running example executes next
NextStmt == Examples[exRun][exPos + 1]

\* C11: each of the three examples of the page is standalone: whatever was
\* run before it in the interpreter, and also in a fresh interpreter, every
\* name a statement reads is bound, and was bound by the running example
\* itself, so no run of an example ends in a NameError.
C11_ExamplesStandalone ==
    /\ \A j \in DOMAIN exDone : exDone[j].ok
    /\ (exRun # 0 /\ exPos < Len(Examples[exRun])) =>
        \A n \in NextStmt.reads :
            /\ n \in DOMAIN kernel
            /\ kernel[n] = exRun

\* the overlay example ran first, the interpreter was not restarted, and the
\* bivariate normal example is about to upload its own data
C11_Witness ==
    /\ exDone = <<[ex |-> 3, ok |-> TRUE]>>
    /\ exRun = 1
    /\ exPos = Len(Examples[1]) - 1
    /\ "x0" \in DOMAIN kernel
    /\ kernel["x0"] = 3
    /\ kernel["data"] = 1

\* the timing traces, collected in plot2 or already appended to fig
TimingTraces == Range(plot2) \cup {fig.data[j] : j \in TracesIn(1, 2)}

\* C12 as stated: in the 'Execution Time' subplot the x-coordinate of each
\* timing point (the entry of sizes, held in tenths) is the number of
\* training rows passed to estimator.fit for that point, and that number
\* never exceeds the 10000 rows of X.  (The fit of a point happens one tick
\* after the t0 of its train time and two ticks before the t0 of its test
\* time.)
C12_TrainSizeIsRowsFitted ==
    \A t \in TimingTraces :
        \A k \in DOMAIN t.y.items :
            LET m    == t.y.items[k]
                fits == {c \in Range(calls) :
                            /\ c.op = "fit"
                            /\ c.who = t.name[1]
                            /\ c.at \in {m.from + 1, m.from - 2}}
            IN  \A c \in fits :
                    /\ c.n <= NRows
                    /\ k \in DOMAIN t.x.items
                    /\ t.x.items[k] = 10 * c.n

\* C13: every trace of the figure has x and y of equal length: the model
\* curves pair the 100000 rows of X_plot with one prediction each, the
\* support-vector and data traces take X and y at the same indices, each
\* timing trace pairs the 7 sizes with 7 times, each learning-curve trace
\* the 10 training sizes with 10 mean scores.
C13_EqualLengths ==
    /\ \A n \in TraceNames : traces[n].x.len = traces[n].y.len
    /\ \A t \in Range(fig.data) \cup Range(plot2) :
        /\ t.x.len = t.y.len
        /\ t.x.items # <<>> => Len(t.x.items) = t.x.len
        /\ t.y.items # <<>> => Len(t.y.items) = t.y.len
        /\ t.name \in {<<"SVR", "fit", "predict">>, <<"KRR", "fit", "predict">>}
             => t.x.len = 100000
        /\ t.name = <<"SVR support vectors">>
             => /\ t.x.len <= 100
                /\ t.x.data = t.y.data
        /\ t.name = <<"data">> => t.x.len = 100 /\ t.x.data = t.y.data
        /\ t.name \in {"KRR", "SVR"} \X {"train", "test"} => t.x.len = 7
        /\ t.name \in {<<"SVR">>, <<"KRR">>} => t.x.len = 10
    /\ y_svr.n # 0 => y_svr.n = X_plot
    /\ y_kr.n # 0 => y_kr.n = X_plot

\* all ten traces are in the figure, among them a model curve of 100000
\* points and a support-vector trace that is neither empty nor everything
C13_Witness ==
    /\ pc = "install"
    /\ Len(fig.data) = 10
    /\ fig.data[3].y.len = NPlot
    /\ fig.data[1].x.len > 0
    /\ fig.data[1].x.len < TrainSize
    /\ fig.data[10].y.len = LCPoints

====
